---------------------------- MODULE Spec2Model ----------------------------
(***************************************************************************)
(* StdioTransport (src/src/index.ts): the connection race of connect(),    *)
(* disconnect(), send(), isConnected(), cleanup() and the line framer      *)
(* handleData(), together with the events a Node.js ChildProcess delivers. *)
(*                                                                         *)
(* All handlers of one transport run on one event loop, so every handler   *)
(* is one atomic action.  A handler is written as an operator from the     *)
(* transport state (a record of the variables below) to the state it       *)
(* leaves behind, so that a handler that calls another one (the timeout    *)
(* timer calls cleanup() and then rejectOnce()) is their composition.      *)
(***************************************************************************)
EXTENDS Integers, Sequences, FiniteSets, TLC

VARIABLES
    process,            \* this.process: NoProcess (null) or the id of a ChildProcess
    buffer,             \* this.buffer: the carry-over of the line framer
    connected,          \* this.connected
    connectionTimeout,  \* this.config.connectionTimeout
    child,              \* the ChildProcess objects spawned so far, by id
    att,                \* the closure of each connect() call that ran the executor
    nspawn,             \* how many connect() calls ran the promise executor
    disconnects,        \* how many disconnect() calls found a handle
    messages,           \* the 'message' notifications emitted, in order
    closes,             \* the 'close' notifications emitted (the child whose handler emitted)
    closeArgs,          \* the arguments passed with each of them
    disconnected,       \* 'disconnected' notifications of a StdioClient on top
    errors,             \* the 'error' notifications emitted, in order
    logs,               \* the 'log' notifications emitted, in order
    nevents,            \* calls of the user and events of the children so far
    lastOp,             \* the handler that ran last
    whole,              \* FramerSpec: the stdout stream of one child, whole
    rest                \* FramerSpec: the part of it not yet delivered

vars == <<process, buffer, connected, connectionTimeout, child, att, nspawn,
          disconnects, messages, closes, closeArgs, disconnected, errors, logs,
          nevents,
          lastOp, whole, rest>>

---------------------------------------------------------------------------
(* Bounds of the model *)

\* The user's calls and what the children do of their own accord (write,
\* terminate) are counted, and the model stops taking them at MaxEvents.
\* What the event loop owes (a due timer, the report of a failed spawn, the
\* close of a terminated child's streams) is never held back.
MaxEvents == 4

Ids == 1..MaxEvents

\* FramerSpec: the longest stdout stream fed to the line framer
MaxStreamLen == 4

---------------------------------------------------------------------------
(* Program constants *)

NoProcess == 0
GraceDelay == 100
DefaultConnectionTimeout == 10000

\* the configured connectionTimeout: the default, or one shorter than the
\* grace delay
TimeoutChoices == {GraceDelay - 50, DefaultConnectionTimeout}

NL == "\n"
Whitespace == {" ", NL}
Chunks == {<<"a">>, <<NL>>, <<" ", NL, "b">>}
StderrTexts == {<<" ">>, <<" ", "e", " ">>}
SendTexts == {"m1", "m2"}

\* (exitCode, signalCode) pairs a terminating child can record
ExitOutcomes == {<<"1", "null">>, <<"null", "SIGTERM">>}

NoError == [kind |-> "none", code |-> "null", signal |-> "null", ms |-> 0]

NoChild == [st |-> "none", exitCode |-> "null", signalCode |-> "null",
            killed |-> FALSE, stdin |-> <<>>, epoch |-> 0]

NoAttempt == [outcome |-> "none", settled |-> FALSE, resolveCalls |-> 0,
              rejectCalls |-> 0, connectionDelay |-> "undefined",
              timeout |-> "undefined", error |-> NoError]

---------------------------------------------------------------------------
(* The transport state as one value, and its installation as the next state *)

Cur == [process |-> process, buffer |-> buffer, connected |-> connected,
        connectionTimeout |-> connectionTimeout, child |-> child, att |-> att,
        nspawn |-> nspawn, disconnects |-> disconnects, messages |-> messages,
        closes |-> closes, closeArgs |-> closeArgs,
        disconnected |-> disconnected, errors |-> errors,
        logs |-> logs]

Install(s, op) ==
    /\ process' = s.process
    /\ buffer' = s.buffer
    /\ connected' = s.connected
    /\ connectionTimeout' = s.connectionTimeout
    /\ child' = s.child
    /\ att' = s.att
    /\ nspawn' = s.nspawn
    /\ disconnects' = s.disconnects
    /\ messages' = s.messages
    /\ closes' = s.closes
    /\ closeArgs' = s.closeArgs
    /\ disconnected' = s.disconnected
    /\ errors' = s.errors
    /\ logs' = s.logs
    /\ lastOp' = op
    /\ UNCHANGED <<whole, rest>>

Op(name, id) == [op |-> name, id |-> id]

---------------------------------------------------------------------------
(* Promise settlement and timers of one connect() call *)

\* the promise's own resolve(): the first call to resolve or reject decides
PromiseResolve(a) ==
    [a EXCEPT !.resolveCalls = @ + 1,
              !.outcome = IF @ = "pending" THEN "resolved" ELSE @]

PromiseReject(a, e) ==
    [a EXCEPT !.rejectCalls = @ + 1,
              !.outcome = IF @ = "pending" THEN "rejected" ELSE @,
              !.error = IF a.outcome = "pending" THEN e ELSE @]

resolveOnce(s, k) ==
    IF s.att[k].settled THEN s
    ELSE [s EXCEPT !.att[k] = PromiseResolve([@ EXCEPT !.settled = TRUE]),
                   !.connected = TRUE]

rejectOnce_unguarded(s, k, e) ==
    [s EXCEPT !.att[k] = PromiseReject([@ EXCEPT !.settled = TRUE], e),
              !.connected = FALSE]

rejectOnce(s, k, e) ==
    IF s.att[k].settled THEN s
    ELSE [s EXCEPT !.att[k] = PromiseReject([@ EXCEPT !.settled = TRUE], e),
                   !.connected = FALSE]

\* clearTimeout on a timer that already fired, or was cleared, does nothing
ClearTimer(t) == IF t = "armed" THEN "cleared" ELSE t

clearConnectionDelay(s, k) ==
    [s EXCEPT !.att[k].connectionDelay = ClearTimer(@)]

clearTimeoutTimer(s, k) ==
    [s EXCEPT !.att[k].timeout = ClearTimer(@)]

clearBoth(s, k) == clearConnectionDelay(clearTimeoutTimer(s, k), k)

---------------------------------------------------------------------------
(* cleanup() and isConnected() *)

\* ChildProcess.kill(): the signal is sent, and `killed` set, when the child
\* still has an OS process; for a child whose spawn failed the result is `ok`
KillResults(s) ==
    IF s.process = NoProcess THEN {FALSE}
    ELSE CASE s.child[s.process].st = "running" -> {TRUE}
           [] s.child[s.process].st = "failing" -> BOOLEAN
           [] OTHER -> {FALSE}

cleanup_keepsHandle(s, ok) ==
    LET s1 == IF s.process # NoProcess
              THEN [s EXCEPT !.child[s.process].killed = @ \/ ok]
              ELSE s
    IN [s1 EXCEPT !.connected = FALSE, !.buffer = <<>>]

cleanup(s, ok) ==
    LET s1 == IF s.process # NoProcess
              THEN [s EXCEPT !.child[s.process].killed = @ \/ ok,
                             !.process = NoProcess]
              ELSE s
    IN [s1 EXCEPT !.connected = FALSE, !.buffer = <<>>]

isConnected_handleOnly(s) ==
    /\ s.process # NoProcess
    /\ s.child[s.process].exitCode = "null"
    /\ ~s.child[s.process].killed

isConnected(s) ==
    /\ s.connected
    /\ s.process # NoProcess
    /\ s.child[s.process].exitCode = "null"
    /\ ~s.child[s.process].killed

IsConnected == isConnected(Cur)

---------------------------------------------------------------------------
(* handleData(): line-delimited framing of the stdout byte stream *)

\* String.prototype.indexOf, 0-based, -1 when the character does not occur
indexOf(buf, ch) ==
    IF \E i \in 1..Len(buf) : buf[i] = ch
    THEN (CHOOSE i \in 1..Len(buf) :
              buf[i] = ch /\ \A j \in 1..(i - 1) : buf[j] # ch) - 1
    ELSE -1

\* String.prototype.slice(from, to), 0-based, `to` exclusive
slice(buf, from, to) == SubSeq(buf, from + 1, to)

RECURSIVE trimStart(_)
trimStart(str) ==
    IF Len(str) > 0 /\ Head(str) \in Whitespace THEN trimStart(Tail(str)) ELSE str

RECURSIVE trimEnd(_)
trimEnd(str) ==
    IF Len(str) > 0 /\ str[Len(str)] \in Whitespace
    THEN trimEnd(SubSeq(str, 1, Len(str) - 1))
    ELSE str

trim(str) == trimEnd(trimStart(str))

frameLoop_oneLine(buf, out) ==
    LET newlineIndex == indexOf(buf, NL) IN
    IF newlineIndex = -1 THEN [buffer |-> buf, out |-> out]
    ELSE LET line == trim(slice(buf, 0, newlineIndex))
             tail == slice(buf, newlineIndex + 1, Len(buf))
         IN [buffer |-> tail,
             out |-> IF Len(line) > 0 THEN Append(out, line) ELSE out]

\* the while loop of handleData: (carry-over, frames emitted)
RECURSIVE frameLoop(_, _)
frameLoop(buf, out) ==
    LET newlineIndex == indexOf(buf, NL) IN
    IF newlineIndex = -1 THEN [buffer |-> buf, out |-> out]
    ELSE LET line == trim(slice(buf, 0, newlineIndex))
             tail == slice(buf, newlineIndex + 1, Len(buf))
         IN frameLoop(tail, IF Len(line) > 0 THEN Append(out, line) ELSE out)

\* Text and bytes.  A chunk is a sequence of bytes; the bytes "a", " " and NL
\* are the one-byte characters of the same name, and Utf8Lead followed by
\* Utf8Cont is the two-byte encoding of the character EAcute.
Utf8Lead == "C3"
Utf8Cont == "A9"
EAcute == "U+00E9"
ReplacementChar == "U+FFFD"

\* Buffer.toString(): UTF-8 decoding of one chunk on its own; a lead byte not
\* followed by its continuation byte, and a continuation byte with no lead
\* before it, each decode to the replacement character
RECURSIVE toString(_)
toString(data) ==
    IF data = <<>> THEN <<>>
    ELSE IF data[1] = Utf8Lead
    THEN IF Len(data) >= 2 /\ data[2] = Utf8Cont
         THEN <<EAcute>> \o toString(SubSeq(data, 3, Len(data)))
         ELSE <<ReplacementChar>> \o toString(Tail(data))
    ELSE IF data[1] = Utf8Cont
    THEN <<ReplacementChar>> \o toString(Tail(data))
    ELSE <<data[1]>> \o toString(Tail(data))

handleData_flushesTail(s, data) ==
    LET r == frameLoop(s.buffer \o toString(data), <<>>)
        last == trim(r.buffer)
    IN [s EXCEPT !.buffer = <<>>,
                 !.messages = @ \o r.out
                              \o (IF Len(last) > 0 THEN <<last>> ELSE <<>>)]

handleData(s, data) ==
    LET r == frameLoop(s.buffer \o toString(data), <<>>)
    IN [s EXCEPT !.buffer = r.buffer, !.messages = @ \o r.out]

---------------------------------------------------------------------------
(* The handlers of connect(), as functions of the state *)

ErrTimeout(ms) == [kind |-> "timeout", code |-> "null", signal |-> "null", ms |-> ms]
ErrExitedImmediately(c) ==
    [kind |-> "exited_immediately", code |-> c.exitCode, signal |-> "null", ms |-> 0]
ErrExitedDuringConnection(c) ==
    [kind |-> "exited_during_connection", code |-> c.exitCode,
     signal |-> c.signalCode, ms |-> 0]
ErrSpawn(code) == [kind |-> "spawn", code |-> code, signal |-> "null", ms |-> 0]
ErrNotConnected == [kind |-> "not_connected", code |-> "null", signal |-> "null", ms |-> 0]
ErrWrite == [kind |-> "write", code |-> "null", signal |-> "null", ms |-> 0]

connect_noGuard(s, how) ==
    LET k == s.nspawn + 1
        fresh == [NoAttempt EXCEPT !.outcome = "pending"]
        s1 == [s EXCEPT !.nspawn = k, !.att[k] = fresh]
    IN [s1 EXCEPT
          !.child[k] = [NoChild EXCEPT !.st = "running", !.epoch = s.disconnects],
          !.process = k,
          !.att[k].connectionDelay = "armed",
          !.att[k].timeout = "armed"]

\* connect(): how is "ok" (spawned), "enoent" (spawn() returned, the error is
\* reported on the next tick) or "throw" (spawn() threw synchronously)
connect(s, how) ==
    IF s.connected THEN s
    ELSE LET k == s.nspawn + 1
             fresh == [NoAttempt EXCEPT !.outcome = "pending"]
             s1 == [s EXCEPT !.nspawn = k, !.att[k] = fresh]
         IN IF how = "throw"
            THEN rejectOnce(s1, k, ErrSpawn("throw"))
            ELSE [s1 EXCEPT
                    !.child[k] = [NoChild EXCEPT
                                    !.st = IF how = "ok" THEN "running" ELSE "failing",
                                    !.epoch = s.disconnects],
                    !.process = k,
                    !.att[k].connectionDelay = "armed",
                    !.att[k].timeout = "armed"]

\* the connectionDelay (grace) timer callback of attempt k
graceTimer_noHandleCheck(s, k) ==
    LET s1 == [s EXCEPT !.att[k].connectionDelay = "fired"] IN
    IF ~s1.connected /\ ~s1.child[k].killed /\ s1.child[k].exitCode = "null"
    THEN resolveOnce(s1, k)
    ELSE IF s1.child[k].exitCode # "null" /\ ~s1.att[k].settled
         THEN rejectOnce(s1, k, ErrExitedImmediately(s1.child[k]))
         ELSE s1

graceTimer(s, k) ==
    LET s1 == [s EXCEPT !.att[k].connectionDelay = "fired"] IN
    IF /\ ~s1.connected
       /\ s1.process = k
       /\ ~s1.child[k].killed
       /\ s1.child[k].exitCode = "null"
    THEN resolveOnce(s1, k)
    ELSE IF s1.child[k].exitCode # "null" /\ ~s1.att[k].settled
         THEN rejectOnce(s1, k, ErrExitedImmediately(s1.child[k]))
         ELSE s1

\* the connection-timeout timer callback of attempt k
timeoutTimer(s, k, ok) ==
    LET s1 == [s EXCEPT !.att[k].timeout = "fired"]
        s2 == clearConnectionDelay(s1, k)
        s3 == cleanup(s2, ok)
    IN rejectOnce(s3, k, ErrTimeout(s.connectionTimeout))

\* childProcess.stdout.on('data')
onStdoutData(s, k, data) ==
    handleData(clearBoth(s, k), data)

\* childProcess.stderr.on('data')
onStderrData_flagsFailure(s, k, data) ==
    LET message == trim(toString(data)) IN
    IF Len(message) > 0
    THEN [s EXCEPT !.logs = Append(@, message), !.connected = FALSE]
    ELSE s

onStderrData(s, k, data) ==
    LET message == trim(toString(data)) IN
    IF Len(message) > 0 THEN [s EXCEPT !.logs = Append(@, message)] ELSE s

onError_noReject(s, k, error) ==
    LET s1 == clearBoth(s, k)
    IN IF s1.att[k].settled /\ s1.connected
       THEN [s1 EXCEPT !.errors = Append(@, error)]
       ELSE s1

\* childProcess.on('error')
onError(s, k, error) ==
    LET s1 == clearBoth(s, k)
        s2 == IF s1.att[k].settled /\ s1.connected
              THEN [s1 EXCEPT !.errors = Append(@, error)]
              ELSE s1
    IN rejectOnce(s2, k, error)

onClose_neverRejects(s, k) ==
    LET s1 == clearBoth(s, k) IN
    IF ~s1.att[k].settled
    THEN s1
    ELSE [s1 EXCEPT !.connected = FALSE, !.closes = Append(@, k),
                    !.closeArgs = Append(@, <<>>)]

onClose_silentAfterTeardown(s, k) ==
    LET s1 == clearBoth(s, k) IN
    IF ~s1.att[k].settled
    THEN rejectOnce(s1, k, ErrExitedDuringConnection(s1.child[k]))
    ELSE IF s1.process = k
         THEN [s1 EXCEPT !.connected = FALSE, !.closes = Append(@, k),
                    !.closeArgs = Append(@, <<>>)]
         ELSE [s1 EXCEPT !.connected = FALSE]

onClose_noEmit(s, k) ==
    LET s1 == clearBoth(s, k) IN
    IF ~s1.att[k].settled
    THEN rejectOnce(s1, k, ErrExitedDuringConnection(s1.child[k]))
    ELSE [s1 EXCEPT !.connected = FALSE]

\* childProcess.on('close')
onClose(s, k) ==
    LET s1 == clearBoth(s, k) IN
    IF ~s1.att[k].settled
    THEN rejectOnce(s1, k, ErrExitedDuringConnection(s1.child[k]))
    ELSE [s1 EXCEPT !.connected = FALSE, !.closes = Append(@, k),
                    !.closeArgs = Append(@, <<>>)]

onExit_reportsKilled(s, k) ==
    LET s1 == [clearConnectionDelay(s, k) EXCEPT !.connected = FALSE]
    IN IF s1.child[k].killed
       THEN [s1 EXCEPT !.errors = Append(@, ErrExitedDuringConnection(s1.child[k]))]
       ELSE s1

onExit_keepsConnected(s, k) == clearConnectionDelay(s, k)

\* childProcess.on('exit')
onExit(s, k) ==
    [clearConnectionDelay(s, k) EXCEPT !.connected = FALSE]

disconnect_noGuard(s, ok) == cleanup(s, ok)

\* disconnect()
disconnect(s, ok) ==
    IF s.process = NoProcess THEN s
    ELSE cleanup([s EXCEPT !.disconnects = @ + 1], ok)

send_silentDrop(s, message, throws) ==
    IF s.process = NoProcess \/ ~s.connected
    THEN s
    ELSE IF throws
         THEN [s EXCEPT !.errors = Append(@, ErrWrite)]
         ELSE [s EXCEPT !.child[s.process].stdin = @ \o <<message, NL>>]

send_prepends(s, message, throws) ==
    IF s.process = NoProcess \/ ~s.connected
    THEN [s EXCEPT !.errors = Append(@, ErrNotConnected)]
    ELSE IF throws
         THEN [s EXCEPT !.errors = Append(@, ErrWrite)]
         ELSE [s EXCEPT !.child[s.process].stdin = <<message, NL>> \o @]

\* send(message); `throws` is whether stdin.write() throws
send(s, message, throws) ==
    IF s.process = NoProcess \/ ~s.connected
    THEN [s EXCEPT !.errors = Append(@, ErrNotConnected)]
    ELSE IF throws
         THEN [s EXCEPT !.errors = Append(@, ErrWrite)]
         ELSE [s EXCEPT !.child[s.process].stdin = @ \o <<message, NL>>]

---------------------------------------------------------------------------
(* Initial state: a constructed transport, nothing spawned *)

Init ==
    /\ process = NoProcess
    /\ buffer = <<>>
    /\ connected = FALSE
    /\ connectionTimeout \in TimeoutChoices
    /\ child = [c \in Ids |-> NoChild]
    /\ att = [k \in Ids |-> NoAttempt]
    /\ nspawn = 0
    /\ disconnects = 0
    /\ messages = <<>>
    /\ closes = <<>>
    /\ closeArgs = <<>>
    /\ disconnected = 0
    /\ errors = <<>>
    /\ logs = <<>>
    /\ nevents = 0
    /\ lastOp = Op("init", 0)
    /\ whole = <<>>
    /\ rest = <<>>

---------------------------------------------------------------------------
(* Calls of the user *)

\* a counted step, and a step of the event loop
Counted == nevents < MaxEvents /\ nevents' = nevents + 1
Owed == nevents' = nevents

ConnectNoop ==
    /\ connected
    /\ Counted
    /\ Install(connect(Cur, "ok"), Op("connect_noop", 0))

ConnectSpawn(how) ==
    /\ ~connected
    /\ Counted
    /\ Install(connect(Cur, how), Op("connect_" \o how, nspawn + 1))

Disconnect ==
    /\ Counted
    /\ \E ok \in KillResults(Cur) :
        Install(disconnect(Cur, ok),
                Op(IF process = NoProcess THEN "disconnect_noop" ELSE "disconnect",
                   process))

Send(message, throws) ==
    /\ Counted
    /\ Install(send(Cur, message, throws), Op("send", process))

---------------------------------------------------------------------------
(* Events of the event loop *)

\* process.nextTick callbacks (the report of a failed spawn) run before any
\* timer or I/O callback
NextTickPending == \E c \in Ids : child[c].st = "failing"

\* Timers fire in the order of their expiry: those of an earlier connect()
\* before the same timer of a later one, and of the two timers of one
\* connect() the one with the shorter delay first.
GraceFire(k) ==
    /\ att[k].connectionDelay = "armed"
    /\ ~NextTickPending
    /\ \A j \in 1..(k - 1) : att[j].connectionDelay # "armed"
    /\ connectionTimeout < GraceDelay => att[k].timeout # "armed"
    /\ Owed
    /\ Install(graceTimer(Cur, k), Op("grace", k))

TimeoutFire(k) ==
    /\ att[k].timeout = "armed"
    /\ ~NextTickPending
    /\ \A j \in 1..(k - 1) : att[j].timeout # "armed"
    /\ connectionTimeout >= GraceDelay => att[k].connectionDelay # "armed"
    /\ Owed
    /\ \E ok \in KillResults(Cur) :
           Install(timeoutTimer(Cur, k, ok), Op("timeout", k))

\* the child writes to stdout; what it wrote can still arrive after 'exit',
\* until the streams close
StdoutData(c, data) ==
    /\ child[c].st \in {"running", "exited"}
    /\ child[c].exitCode # "-2"
    /\ ~NextTickPending
    /\ Counted
    /\ Install(onStdoutData(Cur, c, data), Op("stdout", c))

StderrData(c, data) ==
    /\ child[c].st \in {"running", "exited"}
    /\ child[c].exitCode # "-2"
    /\ ~NextTickPending
    /\ Counted
    /\ Install(onStderrData(Cur, c, data), Op("stderr", c))

\* the spawn failed (ENOENT): exitCode is set to the errno, 'error' is
\* emitted and no 'exit'
ChildError(c) ==
    /\ child[c].st = "failing"
    /\ Owed
    /\ LET s1 == [Cur EXCEPT !.child[c].st = "exited", !.child[c].exitCode = "-2"]
       IN Install(onError(s1, c, ErrSpawn("-2")), Op("error", c))

\* the child terminates: exitCode or signalCode is recorded, 'exit' is emitted
ChildExit(c, outcome) ==
    /\ child[c].st = "running"
    /\ ~NextTickPending
    /\ Counted
    /\ LET s1 == [Cur EXCEPT !.child[c].st = "exited",
                             !.child[c].exitCode = outcome[1],
                             !.child[c].signalCode = outcome[2]]
       IN Install(onExit(s1, c), Op("exit", c))

\* the stdio streams of a terminated child have closed: 'close' is emitted
ChildClose(c) ==
    /\ child[c].st = "exited"
    /\ ~NextTickPending
    /\ Owed
    /\ LET s1 == [Cur EXCEPT !.child[c].st = "closed"]
       IN Install(onClose(s1, c), Op("close", c))

---------------------------------------------------------------------------

Next ==
    \/ ConnectNoop
    \/ \E how \in {"ok", "enoent", "throw"} : ConnectSpawn(how)
    \/ Disconnect
    \/ \E m \in SendTexts, throws \in BOOLEAN : Send(m, throws)
    \/ \E k \in Ids : GraceFire(k)
    \/ \E k \in Ids : TimeoutFire(k)
    \/ \E c \in Ids, data \in Chunks : StdoutData(c, data)
    \/ \E c \in Ids, data \in StderrTexts : StderrData(c, data)
    \/ \E c \in Ids : ChildError(c)
    \/ \E c \in Ids, o \in ExitOutcomes : ChildExit(c, o)
    \/ \E c \in Ids : ChildClose(c)

Spec == Init /\ [][Next]_vars

\* The event loop runs every callback that is due: an armed timer fires, a
\* pending spawn error is reported, and the streams of a terminated child
\* close.  Whether and when a child writes or terminates is up to the child.
Fairness ==
    \A k \in Ids :
        /\ WF_vars(GraceFire(k))
        /\ WF_vars(TimeoutFire(k))
        /\ WF_vars(ChildError(k))
        /\ WF_vars(ChildClose(k))

FairSpec == Spec /\ Fairness

---------------------------------------------------------------------------
(* The line framer alone: one stdout stream, delivered in chunks cut at     *)
(* arbitrary places, each chunk handled by handleData()                     *)

\* The child writes text, UTF-8 encoded, to its stdout; the pipe delivers the
\* bytes in chunks cut at any byte.
Alphabet == {"a", EAcute, " ", NL}
Texts == UNION {[1..n -> Alphabet] : n \in 0..MaxStreamLen}

RECURSIVE utf8(_)
utf8(text) ==
    IF text = <<>> THEN <<>>
    ELSE (IF text[1] = EAcute THEN <<Utf8Lead, Utf8Cont>> ELSE <<text[1]>>)
         \o utf8(Tail(text))

\* the stream {"a":1}\n{"b":2}, whose characters are one byte each
ScenarioStream ==
    <<"{", "\"", "a", "\"", ":", "1", "}", NL, "{", "\"", "b", "\"", ":", "2", "}">>

Streams == {utf8(text) : text \in Texts} \cup {ScenarioStream}

FramerInit ==
    /\ process = NoProcess
    /\ buffer = <<>>
    /\ connected = FALSE
    /\ connectionTimeout = DefaultConnectionTimeout
    /\ child = [c \in Ids |-> NoChild]
    /\ att = [k \in Ids |-> NoAttempt]
    /\ nspawn = 0
    /\ disconnects = 0
    /\ messages = <<>>
    /\ closes = <<>>
    /\ closeArgs = <<>>
    /\ disconnected = 0
    /\ errors = <<>>
    /\ logs = <<>>
    /\ nevents = 0
    /\ lastOp = Op("init", 0)
    /\ whole \in Streams
    /\ rest = whole

\* the next n bytes of the stream arrive as one chunk
Feed(n) ==
    /\ n \in 1..Len(rest)
    /\ LET s == handleData(Cur, SubSeq(rest, 1, n))
       IN /\ buffer' = s.buffer
          /\ messages' = s.messages
    /\ rest' = SubSeq(rest, n + 1, Len(rest))
    /\ lastOp' = Op("feed", n)
    /\ UNCHANGED <<process, connected, connectionTimeout, child, att, nspawn,
                   disconnects, closes, closeArgs, disconnected, errors, logs,
                   nevents, whole>>

FramerNext == \E n \in 1..Len(rest) : Feed(n)

FramerSpec == FramerInit /\ [][FramerNext]_vars

---------------------------------------------------------------------------
(* Vocabulary of the claims *)

ConnectOps == {"connect_noop", "connect_ok", "connect_enoent", "connect_throw"}
DisconnectOps == {"disconnect", "disconnect_noop"}
SettleCalls(k) == att[k].resolveCalls + att[k].rejectCalls
Armed(k) == att[k].connectionDelay = "armed" \/ att[k].timeout = "armed"

---------------------------------------------------------------------------
(* C1: the promise of a connect() call is settled at most once: resolve()   *)
(* and reject() are called at most once in total, whatever fires later.     *)
C1_SettlesAtMostOnce ==
    \A k \in Ids :
        /\ SettleCalls(k) <= 1
        /\ att[k].settled <=> SettleCalls(k) = 1
        /\ att[k].outcome = "resolved" => att[k].rejectCalls = 0
        /\ att[k].outcome = "rejected" => att[k].resolveCalls = 0

\* the timeout timer of an attempt fired after the grace timer resolved it
C1_Witness ==
    \E k \in Ids :
        /\ lastOp = Op("timeout", k)
        /\ att[k].outcome = "resolved"
        /\ att[k].connectionDelay = "fired"

(* C2: every connect() call eventually settles, given that due timers fire  *)
(* and pending process events are delivered.                                *)
C2_ConnectEventuallySettles ==
    \A k \in Ids : (att[k].outcome = "pending") ~> (att[k].outcome # "pending")

(* C3: stdout data arriving while connect() is pending and the grace timer  *)
(* has not fired cancels both timers, resolves the connect, makes           *)
(* isConnected() true, and is fed to the line framer.                       *)
C3_FirstDataEstablishes ==
    [][\A k \in Ids :
          (/\ lastOp' = Op("stdout", k)
           /\ att[k].outcome = "pending"
           /\ att[k].connectionDelay = "armed")
          => /\ ~Armed(k)'
             /\ att'[k].outcome = "resolved"
             /\ IsConnected'
             /\ \E data \in Chunks :
                    /\ buffer' = handleData(Cur, data).buffer
                    /\ messages' = handleData(Cur, data).messages]_vars

(* C4: the connection-timeout timer tears down only when it fires on an     *)
(* unsettled connect; a timer of an attempt that has settled by another     *)
(* path is cancelled, so that its firing, if any, is a no-op: it kills no   *)
(* process, clears no buffer and does not touch the connected flag.         *)
C4_TimersInertOnceSettled ==
    [][\A k \in Ids :
          (lastOp' \in {Op("timeout", k), Op("grace", k)} /\ att[k].settled)
          => UNCHANGED <<process, buffer, connected, child>>]_vars

(* C5: an established connection stops being connected only by disconnect() *)
(* or by the exit/close of its own child.                                   *)
C5_OnlyDisconnectOrOwnExitTerminates ==
    [][(IsConnected /\ ~IsConnected')
       => lastOp' \in {Op("disconnect", process), Op("exit", process),
                       Op("close", process)}]_vars

(* C6: a connect() call made while the handle of a live child is held is a  *)
(* no-op: no second process is spawned and the handle is not replaced.      *)
C6_ConnectWhileLiveIsNoop ==
    [][(/\ lastOp'.op \in ConnectOps
        /\ process # NoProcess
        /\ child[process].st = "running")
       => (nspawn' = nspawn /\ process' = process /\ child' = child)]_vars

(* C7: connect() on an established transport is a no-op: nothing is         *)
(* spawned, no timer is armed, handle, flag and buffer are unchanged and    *)
(* isConnected() is still true.                                             *)
C7_ConnectWhenEstablishedIsNoop ==
    [][(lastOp'.op \in ConnectOps /\ IsConnected)
       => /\ lastOp'.op = "connect_noop"
          /\ UNCHANGED <<process, buffer, connected, child, att, nspawn,
                         messages, closes, errors, logs>>
          /\ IsConnected']_vars

C7_Witness == lastOp.op = "connect_noop" /\ IsConnected

(* C8: disconnect() without a handle changes nothing and emits nothing, and *)
(* every disconnect() leaves no handle, so a second call is such a no-op.   *)
C8_DisconnectIdempotent ==
    [][(lastOp'.op \in DisconnectOps)
       => /\ process' = NoProcess
          /\ process = NoProcess
             => /\ lastOp'.op = "disconnect_noop"
                /\ UNCHANGED <<process, buffer, connected, child, att, nspawn,
                               disconnects, messages, closes, errors, logs>>]_vars

\* a disconnect() that found no handle, after one that found one, with a
\* carry-over that the killed child left behind
C8_Witness == lastOp.op = "disconnect_noop" /\ disconnects >= 1 /\ buffer # <<>>

(* C9: when a connect() promise resolves, isConnected() is true at that     *)
(* moment, and for the call that spawned, its child is the current handle.  *)
C9_ResolvedImpliesIsConnected ==
    /\ \A k \in Ids :
           (lastOp = Op("grace", k) /\ att[k].outcome = "resolved")
           => (IsConnected /\ process = k)
    /\ lastOp.op = "connect_noop" => IsConnected

\* the grace timer of the second of two attempts resolved it
C9_Witness ==
    \E k \in Ids :
        /\ k > 1
        /\ lastOp = Op("grace", k)
        /\ att[k].outcome = "resolved"

(* C10: disconnect() with a live handle signals the child, drops the        *)
(* handle, empties the carry-over and leaves isConnected() false; it is     *)
(* true again only for a child spawned by a later connect() that resolved.  *)
C10_DisconnectTearsDown ==
    /\ [][(lastOp'.op = "disconnect" /\ process # NoProcess)
          => /\ child[process].st = "running" => child'[process].killed
             /\ process' = NoProcess
             /\ buffer' = <<>>
             /\ ~IsConnected']_vars
    /\ [](IsConnected => /\ child[process].epoch = disconnects
                         /\ att[process].outcome = "resolved")

\* connected again after a disconnect() that killed a running child
C10_Witness ==
    /\ IsConnected
    /\ disconnects >= 1
    /\ \E c \in Ids : child[c].killed

(* C11: once the exit of the current child has been handled, isConnected()  *)
(* is false, with no disconnect() needed: it is never true while the        *)
(* handle held is that of a child that has terminated.                      *)
C11_ExitEndsIsConnected ==
    (process # NoProcess /\ child[process].st \in {"exited", "closed"})
    => ~IsConnected

\* the child of an established connection was killed from outside (a signal,
\* so exitCode stays null and `killed` false) and its 'exit' was handled
C11_Witness ==
    \E c \in Ids :
        /\ lastOp = Op("exit", c)
        /\ process = c
        /\ att[c].outcome = "resolved"
        /\ child[c].signalCode = "SIGTERM"
        /\ ~child[c].killed
        /\ disconnects = 0

Count(seq, x) == Cardinality({i \in DOMAIN seq : seq[i] = x})

(* C12: for a connection that was established, the termination of its child *)
(* publishes exactly one `close`: none before the child's streams have      *)
(* closed, one from then on, never two.                                     *)
C12_ExactlyOneClose ==
    \A c \in Ids :
        att[c].outcome = "resolved"
        => Count(closes, c) = (IF child[c].st = "closed" THEN 1 ELSE 0)

\* an established child terminated on its own and its streams closed
C12_Witness ==
    \E c \in Ids :
        /\ lastOp = Op("close", c)
        /\ att[c].outcome = "resolved"
        /\ ~child[c].killed
        /\ disconnects = 0
        /\ closes = <<c>>

C14_SendAppendsInOrder ==
    /\ [][(lastOp'.op = "send" /\ IsConnected /\ errors' = errors)
          => \E m \in SendTexts :
                 child' = [child EXCEPT ![process].stdin = @ \o <<m, NL>>]]_vars
    /\ [](\A c \in Ids : \A i \in DOMAIN child[c].stdin :
              (child[c].stdin[i] = NL) <=> (i % 2 = 0))

\* two different messages were sent, and arrived in call order
C14_Witness ==
    \E c \in Ids : child[c].stdin = <<"m1", NL, "m2", NL>>

---------------------------------------------------------------------------
(* The line framer (FramerSpec) *)

\* the bytes of the stream delivered so far
Delivered == SubSeq(whole, 1, Len(whole) - Len(rest))

(* C15: chunk-boundary invariance: when the stream has been delivered,      *)
(* whatever the cuts were, the frames emitted and the carry-over are those  *)
(* of delivering the whole stream as one chunk (so any two ways of cutting  *)
(* the stream agree).                                                       *)
C15_ChunkInvariance ==
    rest = <<>> =>
        LET one == handleData([Cur EXCEPT !.buffer = <<>>, !.messages = <<>>], whole)
        IN messages = one.messages /\ buffer = one.buffer

\* The reference framing of a text: the lines are what lies between one
\* newline and the next (or the start of the text); each is stripped of the
\* whitespace at its ends; those left empty are dropped.
NewlinesOf(str) == {i \in DOMAIN str : str[i] = NL}

LineEndingAt(str, p) ==
    LET before == {q \in NewlinesOf(str) : q < p}
        start == IF before = {} THEN 1
                 ELSE (CHOOSE q \in before : \A r \in before : r <= q) + 1
    IN SubSeq(str, start, p - 1)

Stripped(line) ==
    LET ink == {i \in DOMAIN line : line[i] \notin Whitespace}
    IN IF ink = {} THEN <<>>
       ELSE SubSeq(line, CHOOSE i \in ink : \A j \in ink : i <= j,
                         CHOOSE i \in ink : \A j \in ink : j <= i)

RECURSIVE RefFramesAt(_, _)
RefFramesAt(str, ps) ==
    IF ps = {} THEN <<>>
    ELSE LET p == CHOOSE q \in ps : \A r \in ps : q <= r
             f == Stripped(LineEndingAt(str, p))
         IN (IF f = <<>> THEN <<>> ELSE <<f>>) \o RefFramesAt(str, ps \ {p})

RefFrames(str) == RefFramesAt(str, NewlinesOf(str))

(* C16: the `message` notifications are the reference framing of the stdout *)
(* stream delivered so far: one per newline-terminated line that is not     *)
(* empty after trimming, trimmed, in stream order, each once; and none is   *)
(* empty or made of whitespace only.                                        *)
C16_MessagesAreReferenceFraming ==
    /\ messages = RefFrames(toString(Delivered))
    /\ \A i \in DOMAIN messages :
           \E j \in DOMAIN messages[i] : messages[i][j] \notin Whitespace

---------------------------------------------------------------------------
(* Failure paths of connect() *)

(* C17: when the connection-timeout timer fires on an unsettled connect,    *)
(* the child spawned by that connect is sent the termination signal, the    *)
(* frame buffer is reset, the connect rejects with the timeout error naming *)
(* the configured connectionTimeout, and no child of the transport is left  *)
(* running without having been signalled.                                   *)
C17_TimeoutTearsDownItsChild ==
    [][\A k \in Ids :
          (lastOp' = Op("timeout", k) /\ ~att[k].settled)
          => /\ child[k].st = "running" => child'[k].killed
             /\ buffer' = <<>>
             /\ att'[k].outcome = "rejected"
             /\ att'[k].error = ErrTimeout(connectionTimeout)
             /\ \A c \in Ids : child'[c].st = "running" => child'[c].killed]_vars

(* C18: a spawn error reported before the connect has settled rejects that  *)
(* connect with that same error; the attempt is not established then or     *)
(* later, and isConnected() is false afterwards.                            *)
C18_SpawnErrorRejects ==
    /\ [][\A k \in Ids :
             (lastOp' = Op("error", k) /\ ~att[k].settled)
             => /\ att'[k].outcome = "rejected"
                /\ att'[k].error = ErrSpawn(child'[k].exitCode)
                /\ att'[k].resolveCalls = 0
                /\ ~IsConnected']_vars
    /\ [][\A k \in Ids :
             (att[k].outcome = "rejected" /\ att[k].error.kind = "spawn")
             => att'[k] = att[k]]_vars

\* the executable was not found: the error arrived while the connect was
\* pending and rejected it
C18_Witness ==
    \E k \in Ids :
        /\ lastOp = Op("error", k)
        /\ att[k].outcome = "rejected"
        /\ att[k].error = ErrSpawn("-2")
        /\ att[k].rejectCalls = 1
        /\ ~IsConnected

(* C19: when the streams of an exited child close before its connect has    *)
(* settled, that connect rejects with the error carrying the child's exit   *)
(* code and signal, and the attempt is never established.                   *)
C19_CloseBeforeSettleRejects ==
    /\ [][\A k \in Ids :
             (lastOp' = Op("close", k) /\ ~att[k].settled)
             => /\ att'[k].outcome = "rejected"
                /\ att'[k].error.kind = "exited_during_connection"
                /\ att'[k].error.code = child[k].exitCode
                /\ att'[k].error.signal = child[k].signalCode
                /\ <<child[k].exitCode, child[k].signalCode>> \in ExitOutcomes
                /\ att'[k].resolveCalls = 0]_vars
    /\ [][\A k \in Ids :
             (att[k].outcome = "rejected"
              /\ att[k].error.kind = "exited_during_connection")
             => att'[k] = att[k]]_vars

\* the child exited with code 1 inside the grace window and its streams
\* closed: the pending connect was rejected with code 1 and no signal
C19_Witness ==
    \E k \in Ids :
        /\ lastOp = Op("close", k)
        /\ att[k].outcome = "rejected"
        /\ att[k].error = [kind |-> "exited_during_connection", code |-> "1",
                           signal |-> "null", ms |-> 0]
        /\ att[k].connectionDelay = "cleared"
        /\ disconnects = 0

(* C20: a disconnect() made while the connect() that spawned the current    *)
(* child is pending forces that connect to fail: it eventually rejects, and *)
(* it never resolves after the disconnect.                                  *)
C20_DisconnectFailsPendingConnect ==
    \A k \in Ids :
        /\ [](lastOp = Op("disconnect", k) /\ att[k].outcome = "pending"
              => [](att[k].outcome # "resolved"))
        /\ (lastOp = Op("disconnect", k) /\ att[k].outcome = "pending")
           ~> (att[k].outcome = "rejected")

---------------------------------------------------------------------------
(* Establishment, teardown and reconnection *)

(* C21: when the grace timer of an unsettled connect fires and the child of *)
(* that connect is alive (running, not signalled by the transport), the     *)
(* connect resolves at that moment and the transport is established; no     *)
(* stdout output of the child is needed.                                    *)
C21_GraceResolvesLiveChild ==
    [][\A k \in Ids :
          (/\ lastOp' = Op("grace", k)
           /\ ~att[k].settled
           /\ child[k].st = "running"
           /\ ~child[k].killed)
          => /\ att'[k].outcome = "resolved"
             /\ connected'
             /\ IsConnected']_vars

(* C22: after an established connection has been torn down (its child       *)
(* signalled by the transport, as disconnect() does), once the child has    *)
(* terminated a `close` notification for it is eventually published (when   *)
(* its streams close).                                                      *)
C22_DisconnectEventuallyCloses ==
    \A k \in Ids :
        (att[k].outcome = "resolved" /\ child[k].killed /\ child[k].st = "exited")
        ~> (Count(closes, k) = 1)

\* the child of an established connection was disconnected, terminated on
\* the signal and its streams closed: the one `close` has been published
C22_Witness ==
    \E k \in Ids :
        /\ lastOp = Op("close", k)
        /\ att[k].outcome = "resolved"
        /\ att[k].timeout = "cleared"
        /\ child[k].killed
        /\ child[k].signalCode = "SIGTERM"
        /\ disconnects = 1
        /\ closes = <<k>>

(* C23: disconnect() does not wait for the child: it returns with the child *)
(* as it was (signalled, not yet terminated) and reports no error; the exit *)
(* and close of the child, arriving later, publish no `error`.              *)
C23_ExitAfterDisconnectIsExpected ==
    /\ [][(lastOp'.op = "disconnect")
          => /\ child'[process].st = child[process].st
             /\ errors' = errors]_vars
    /\ [][(lastOp'.op \in {"exit", "close"}) => errors' = errors]_vars

\* a running child was disconnected and terminated on the signal afterwards
C23_Witness ==
    \E k \in Ids :
        /\ lastOp = Op("exit", k)
        /\ child[k].killed
        /\ child[k].signalCode = "SIGTERM"
        /\ disconnects = 1
        /\ process = NoProcess
        /\ errors = <<>>

\* every connect before attempt k has settled
EarlierAttemptsOver(k) == \A j \in 1..(k - 1) : att[j].settled

(* C24: a connect() made after a terminal state (a rejected or timed-out    *)
(* connect, an exit of the child, a disconnect) spawns a fresh child, and   *)
(* if that child is still running when its grace timer fires, with no       *)
(* disconnect() since, the connect resolves and isConnected() is true.      *)
C24_ReconnectAfterTerminalState ==
    [][\A k \in Ids :
          (/\ k > 1
           /\ lastOp' = Op("grace", k)
           /\ EarlierAttemptsOver(k)
           /\ ~att[k].settled
           /\ child[k].st = "running"
           /\ child[k].epoch = disconnects)
          => /\ att'[k].outcome = "resolved"
             /\ IsConnected']_vars

(* C25: once a child has been torn down (signalled by disconnect() or by a  *)
(* timeout cleanup), stdout data it still writes publishes no `message`.    *)
C25_NoMessageAfterTeardown ==
    [][\A c \in Ids :
          (lastOp' = Op("stdout", c) /\ child[c].killed /\ process # c)
          => messages' = messages]_vars

\* the children spawned so far
Spawned == {c \in Ids : child[c].st # "none"}

(* C26: isConnected() is true only if the connected flag is set and the     *)
(* handle is non-null, is that of the most recently spawned child, which    *)
(* has recorded no exit code and has not been signalled by the transport.   *)
C26_IsConnectedOnlyIfLive ==
    IsConnected
    => /\ connected
       /\ process # NoProcess
       /\ process \in Spawned
       /\ \A c \in Spawned : c <= process
       /\ child[process].exitCode = "null"
       /\ child[process].st = "running"
       /\ ~child[process].killed

\* established on the second of two children, the first still running
C26_Witness ==
    /\ IsConnected
    /\ process = 2
    /\ child[1].st = "running"
    /\ ~child[1].killed

---------------------------------------------------------------------------
(* The carry-over buffer (FramerSpec) *)

\* the chunk handled by the step
FedChunk == SubSeq(rest, 1, Len(rest) - Len(rest'))

HasNewline(str) == \E i \in DOMAIN str : str[i] = NL

(* C27: after every run of the stdout data handler the carry-over holds no  *)
(* newline; a chunk with no newline emits no frame and only appends to the  *)
(* carry-over; a chunk that ends on a newline leaves the carry-over empty.  *)
C27_CarryHoldsIncompleteTail ==
    /\ [](~HasNewline(buffer))
    /\ [][/\ ~HasNewline(FedChunk)
             => /\ messages' = messages
                /\ buffer' = buffer \o toString(FedChunk)
                /\ Len(buffer') > Len(buffer)
          /\ FedChunk[Len(FedChunk)] = NL => buffer' = <<>>]_vars

\* one chunk held a line, a newline, a blank line and the final newline
C27_Witness ==
    /\ whole = <<"a", NL, " ", NL>>
    /\ rest = <<>>
    /\ lastOp = Op("feed", 4)
    /\ buffer = <<>>
    /\ messages = << <<"a">> >>

---------------------------------------------------------------------------
(* C28: no handle is retained for a dead process: once the child held has   *)
(* exited, or its spawn has failed and been reported, the handle is null,   *)
(* as after disconnect().                                                   *)
C28_NoHandleToDeadProcess ==
    process # NoProcess => child[process].st \notin {"exited", "closed"}

---------------------------------------------------------------------------
(* C29: the stderr data handler is diagnostic only: it publishes one `log`  *)
(* with the trimmed text when that text is not empty, and nothing           *)
(* otherwise; flag, handle, buffer, timers and the outcome of a pending     *)
(* connect are left as they were.                                           *)
C29_StderrIsDiagnosticOnly ==
    [][(lastOp'.op = "stderr")
       => /\ UNCHANGED <<process, buffer, connected, child, att, nspawn,
                         disconnects, messages, closes, errors>>
          /\ \E data \in StderrTexts :
                 logs' = IF \A i \in DOMAIN data : data[i] \in Whitespace
                         THEN logs
                         ELSE Append(logs, Stripped(data))]_vars

\* stderr text arrived while the connect was pending, both timers armed
C29_Witness ==
    \E k \in Ids :
        /\ lastOp = Op("stderr", k)
        /\ att[k].outcome = "pending"
        /\ att[k].connectionDelay = "armed"
        /\ att[k].timeout = "armed"
        /\ logs = << <<"e">> >>

---------------------------------------------------------------------------
(* The two-chunk scenario (FramerSpec) *)

FrameA == <<"{", "\"", "a", "\"", ":", "1", "}">>
FrameB == <<"{", "\"", "b", "\"", ":", "2", "}">>

\* the stream {"a":1}\n{"b":2} arrived as the chunk {"a":1}\n{" and the
\* step delivers the chunk b":2}
SecondScenarioChunk ==
    /\ whole = ScenarioStream
    /\ lastOp = Op("feed", 10)
    /\ Len(rest) = 5
    /\ lastOp' = Op("feed", 5)

(* C30, as stated: the two chunks cause exactly two frames, {"a":1} then    *)
(* {"b":2}.                                                                 *)
C30_TwoFramesEmitted ==
    [][SecondScenarioChunk => messages' = <<FrameA, FrameB>>]_vars

(* C30, amended: the two chunks cause exactly one frame, {"a":1}; the text  *)
(* {"b":2}, which no newline follows, is not emitted: after the first chunk *)
(* the carry-over is {" and after the second it is {"b":2}.                 *)
C30_OneFrameAndCarry ==
    [][SecondScenarioChunk
       => /\ messages = <<FrameA>>
          /\ buffer = <<"{", "\"">>
          /\ messages' = <<FrameA>>
          /\ buffer' = FrameB]_vars

\* both chunks of the scenario have been handled
C30_Witness ==
    /\ whole = ScenarioStream
    /\ rest = <<>>
    /\ lastOp = Op("feed", 5)
    /\ messages = <<FrameA>>
    /\ buffer = FrameB

---------------------------------------------------------------------------
(* Notifications and leftovers of earlier connections *)

(* C31: the `close` notification published when the child of a connection  *)
(* that was established terminates carries the exit code and the signal     *)
(* observed for that child.                                                 *)
C31_CloseCarriesExitAndSignal ==
    \A i \in DOMAIN closes :
        att[closes[i]].outcome = "resolved"
        => closeArgs[i] = <<child[closes[i]].exitCode, child[closes[i]].signalCode>>

(* C32: a grace or connection-timeout timer of one connect() acts only on   *)
(* the child of that connect: when it fires, no child spawned by a later    *)
(* connect() (here: one made after a disconnect() in between) is signalled, *)
(* and if the handle held is such a child, handle and connected flag stay.  *)
C32_TimersActOnOwnChildOnly ==
    [][\A k \in Ids :
          lastOp' \in {Op("grace", k), Op("timeout", k)}
          => \A c \in Ids :
                 (c > k /\ child[c].st # "none" /\ child[c].epoch > child[k].epoch)
                 => /\ child'[c] = child[c]
                    /\ process = c => (process' = c /\ connected' = connected)]_vars

(* C33: the exit, close and error events of a previous child, arriving when *)
(* a replacement child (spawned after a disconnect()) is established, leave *)
(* the connected flag set and isConnected() true.                           *)
C33_OldChildEventsLeaveNewConnection ==
    [][\A k \in Ids :
          (/\ lastOp' \in {Op("exit", k), Op("close", k), Op("error", k)}
           /\ IsConnected
           /\ process # k
           /\ child[process].epoch > child[k].epoch)
          => (connected' /\ IsConnected')]_vars

(* C34: a `close` notification is published only for a connection that was  *)
(* established: never by the child of a connect() that was rejected.        *)
C34_CloseOnlyAfterEstablished ==
    \A i \in DOMAIN closes : att[closes[i]].outcome = "resolved"

(* C35: every new connection starts with an empty frame buffer: when a      *)
(* connect() made after the previous child has terminated (a crash) has     *)
(* spawned its child, the carry-over is empty, so that nothing the previous *)
(* child wrote can end up in a frame of the new one.                        *)
C35_NewConnectionStartsEmpty ==
    [][(/\ lastOp'.op \in {"connect_ok", "connect_enoent"}
        /\ process # NoProcess
        /\ child[process].st \in {"exited", "closed"})
       => buffer' = <<>>]_vars

(* C36: when disconnect() has returned, every child the transport ever      *)
(* spawned has terminated or has been sent the termination signal.          *)
C36_NoChildLeftAfterDisconnect ==
    [][(lastOp'.op \in DisconnectOps)
       => \A c \in Ids : child'[c].st = "running" => child'[c].killed]_vars

---------------------------------------------------------------------------
(* A StdioClient on top of the transport.  It hands the transport to a     *)
(* JSONRPCClient, whose connect(), disconnect() and isConnected() pass the *)
(* call on to the transport, and it listens to the transport itself.       *)

\* the listener the constructor puts on the transport's 'close'
clientOnTransportClose(s) == [s EXCEPT !.disconnected = @ + 1]

\* StdioClient.disconnect()
clientDisconnect(s, ok) ==
    LET wasConnected == isConnected(s)
        s1 == disconnect(s, ok)
    IN IF wasConnected THEN [s1 EXCEPT !.disconnected = @ + 1] ELSE s1

ClientDisconnect ==
    /\ Counted
    /\ \E ok \in KillResults(Cur) :
        Install(clientDisconnect(Cur, ok),
                Op(IF process = NoProcess THEN "disconnect_noop" ELSE "disconnect",
                   process))

\* the streams of a terminated child close: the transport's handler runs, and
\* the client's listener runs for the 'close' it emits
ClientChildClose(c) ==
    /\ child[c].st = "exited"
    /\ ~NextTickPending
    /\ Owed
    /\ LET s1 == [Cur EXCEPT !.child[c].st = "closed"]
           s2 == onClose(s1, c)
       IN Install(IF Len(s2.closes) > Len(s1.closes)
                  THEN clientOnTransportClose(s2) ELSE s2,
                  Op("close", c))

ClientNext ==
    \/ ConnectNoop
    \/ \E how \in {"ok", "enoent", "throw"} : ConnectSpawn(how)
    \/ ClientDisconnect
    \/ \E k \in Ids : GraceFire(k)
    \/ \E k \in Ids : TimeoutFire(k)
    \/ \E c \in Ids : ChildError(c)
    \/ \E c \in Ids, o \in ExitOutcomes : ChildExit(c, o)
    \/ \E c \in Ids : ClientChildClose(c)

ClientSpec == Init /\ [][ClientNext]_vars

\* the children that were spawned and have been killed or have terminated
Ended ==
    {c \in Ids : child[c].st # "none" /\ (child[c].killed \/ child[c].st # "running")}

(* C37: a StdioClient emits `disconnected` exactly once per disconnection: *)
(* one disconnect() on a connected client, or one termination of the       *)
(* child, gives one `disconnected` event, so there are never more events   *)
(* than children that were killed or have terminated.                      *)
C37_DisconnectedOncePerDisconnection ==
    disconnected <= Cardinality(Ended)

====
